---- MODULE Spec2Model ----
(***************************************************************************)
(* Model of the deck legality checker (src/checker.py) and of the proof    *)
(* sheet plotter (src/plotter.py).                                         *)
(*                                                                         *)
(* Python strings that the code only compares or formats as a whole (card  *)
(* names, format names, error texts, messages) are TLA+ strings, built     *)
(* with \o as the f-strings build them.  Strings the code inspects         *)
(* character by character (a legality status, a type line) are sequences   *)
(* of one-character strings.  A JSON object is a function whose domain is  *)
(* the set of keys that are present.                                       *)
(***************************************************************************)
EXTENDS Integers, Sequences, FiniteSets, TLC

VARIABLES
    deck,         \* self.deck: [maindeck |-> seq of entries, sidedeck |-> ...]
    format,       \* self.format
    catalog,      \* what the remote catalog may answer in this run
    reasons,      \* self.reasons
    appended,     \* history: the messages each source appended, in its own
                  \* order (source 0: check_deck_size, source t: task t)
    sem_value,    \* self._rate_limit_semaphore._value
    sem_waiters,  \* self._rate_limit_semaphore._waiters (FIFO)
    timers,       \* the event loop's pending asyncio.sleep timers, by deadline
    task_pc,      \* position of each _check_card task
    card_data,    \* the local card_data of each _check_card task
    requests,     \* history: number of session.get calls issued by each task
    response,     \* history: how each task's request ended: <<"pending">>,
                  \* <<"ok", body>> or <<"error", text>>
    run_pc,       \* position of run_checks
    report,       \* the string run_checks returns
    basic,        \* plot_deck_async: the parameter basic
    dimensions,   \* plot_deck_async: the parameter dimensions, <<width, height>>
    canvas,       \* plot_deck_async: the pastes on the current canvas, in order
    card_count,   \* plot_deck_async: card_count
    page_count,   \* plot_deck_async: page_count
    deck_price,   \* plot_deck_async: deck_price, in cents
    saved,        \* the canvas.save calls so far: [name, canvas]
    plot_pc,      \* position of plot_deck_async
    entry_idx,    \* index of the loop variable card in maindeck + sidedeck
    card_faces,   \* plot_deck_async: card_faces of the current entry
    face_idx,     \* index of the loop variable img in the fetched images
    copy_idx,     \* iterations of "for _ in range(quantity)" done for img
    plot_requests,\* history: fetch_card_data calls issued for each entry
    placed,       \* history: number of pastes made for each entry
    total,        \* the price plot_deck_async returns, in cents
    plot_response,\* history: what fetch_card_data returned for each entry:
                  \* <<"pending">>, <<"ok", body>> or <<"error", text>>
    raised        \* the exception that ended plot_deck_async, "" if none

checker_vars == <<format, reasons, appended, sem_value, sem_waiters,
                  timers, task_pc, card_data, requests, response, run_pc,
                  report>>

plotter_vars == <<basic, dimensions, canvas, card_count, page_count, deck_price,
                  saved, plot_pc, entry_idx, card_faces, face_idx, copy_idx,
                  plot_requests, placed, total, plot_response, raised>>

vars == <<deck, catalog, checker_vars, plotter_vars>>

----------------------------------------------------------------------------
(* Bounds of the model *)

MaxMain == 2        \* longest maindeck of the small decks
ExtraTasks == 1     \* entries beyond the semaphore's permits in the large deck
MaxQuantity == 3    \* largest quantity of an entry of a rendered deck

----------------------------------------------------------------------------
(* Strings inspected character by character *)

None == <<"None">>          \* Python's None: no sequence of characters equals it

LEGAL == <<"l","e","g","a","l">>
NOT_LEGAL == <<"n","o","t","_","l","e","g","a","l">>
BANNED == <<"b","a","n","n","e","d">>

INSTANT == <<"I","n","s","t","a","n","t">>
BASIC_LAND == <<"B","a","s","i","c"," ","L","a","n","d">>
BASIC_SNOW_LAND == <<"B","a","s","i","c"," ","S","n","o","w"," ","L","a","n","d">>
BASIC == <<"B","a","s","i","c">>

RECURSIVE Str(_)
\* the Python string made of the characters cs
Str(cs) == IF cs = <<>> THEN "" ELSE Head(cs) \o Str(Tail(cs))

\* str.replace(old, new) for one-character old and new
Replace(cs, old, new) == [i \in DOMAIN cs |-> IF cs[i] = old THEN new ELSE cs[i]]

\* str.startswith(prefix)
StartsWith(cs, prefix) ==
    /\ Len(cs) >= Len(prefix)
    /\ SubSeq(cs, 1, Len(prefix)) = prefix

\* truth value of a string or None
Truthy(v) == v # None /\ v # <<>>

\* dict.get(key, default)
Get(d, key, default) == IF key \in DOMAIN d THEN d[key] ELSE default

EmptyDict == [k \in {} |-> None]

----------------------------------------------------------------------------
(* Class constants of DeckChecker *)

UNLIMITED_CARDS ==
    {"Persistent Petitioners", "Rat Colony", "Relentless Rats",
     "Shadowborn Apostle", "Dragon's Approach"}

SPECIAL_LIMIT_CARDS == [n \in {"Seven Dwarves"} |-> 7]

SemaphorePermits == 10

----------------------------------------------------------------------------
(* Inputs *)

Formats == {"commander", "modern"}

Entry(n, q) == [cardname |-> n, quantity |-> q]

\* entries of the small decks, where the tasks' interleavings are explored
SmallEntries == { Entry("Lightning Bolt", 5), Entry("Seven Dwarves", 3) }

\* entries of the decks that exercise the size and quantity rules
CardNames == {"Lightning Bolt", "Seven Dwarves", "Rat Colony", "Forest"}
Quantities == {1, 3, 4, 5, 7, 8, 40, 59, 60, 61, 98, 99, 100}
SideQuantities == {1, 3, 15, 16}

SeqsUpTo(S, lo, hi) == UNION { [1..n -> S] : n \in lo..hi }

\* up to MaxMain maindeck entries and at most one sidedeck entry
SmallDecks ==
    { [maindeck |-> m, sidedeck |-> s] :
        m \in SeqsUpTo(SmallEntries, 1, MaxMain),
        s \in SeqsUpTo(SmallEntries, 0, 1) }

SizedDecks ==
    { [maindeck |-> <<Entry(n, q)>>, sidedeck |-> s] :
        n \in CardNames, q \in Quantities,
        s \in {<<>>} \cup { <<Entry("Lightning Bolt", sq)>> : sq \in SideQuantities } }

\* a deck with more entries than the semaphore has permits
LargeDeck ==
    [maindeck |-> [i \in 1..SemaphorePermits |-> Entry("Forest", 4)],
     sidedeck |-> [i \in 1..ExtraTasks |-> Entry("Forest", 4)]]

\* JSON bodies the catalog may return with status 200
Card(legalities, type_line) == [legalities |-> legalities, type_line |-> type_line]

LegalCard == Card([f \in Formats |-> LEGAL], INSTANT)
NotLegalCard == Card([f \in Formats |-> NOT_LEGAL], INSTANT)
BannedBasic == Card([f \in Formats |-> BANNED], BASIC_SNOW_LAND)
LegalBasic == Card([f \in Formats |-> LEGAL], BASIC_LAND)
NoLegalities == [type_line |-> INSTANT]
UnknownFormat == [legalities |-> [f \in {"vintage"} |-> LEGAL]]

AllBodies == {LegalCard, NotLegalCard, BannedBasic, LegalBasic, NoLegalities,
              UnknownFormat, EmptyDict}

\* str(e) of the exceptions session.get / raise_for_status / json may raise
AllErrors == {"404, message='Not Found'", ""}

\* what the catalog may answer to each request of a run
AnyCatalog == [bodies |-> AllBodies, errors |-> AllErrors]
SmallCatalog == [bodies |-> {NotLegalCard, LegalBasic, EmptyDict}, errors |-> {""}]
PlainCatalog == [bodies |-> {LegalBasic}, errors |-> {}]
DownCatalog == [bodies |-> {}, errors |-> {""}]

----------------------------------------------------------------------------
(* Derived values *)

Cards == deck.maindeck \o deck.sidedeck
Tasks == 1..Len(Cards)

RECURSIVE SumQuantity(_)
SumQuantity(cs) ==
    IF cs = <<>> THEN 0 ELSE Head(cs).quantity + SumQuantity(Tail(cs))

RECURSIVE Join(_, _)
\* sep.join(lines)
Join(sep, lines) ==
    IF lines = <<>> THEN ""
    ELSE IF Len(lines) = 1 THEN lines[1]
    ELSE lines[1] \o sep \o Join(sep, Tail(lines))

\* tasks holding a permit of the semaphore
InFlight == { t \in Tasks : task_pc[t] \in {"acquired", "sleep", "get"} }

----------------------------------------------------------------------------
(* DeckChecker *)

\* SizeReasons, with a commander maindeck that may exceed 99
SizeReasons_AtLeast99(fmt, main_count, side_count) ==
    IF fmt = "commander"
    THEN (IF main_count < 99
          THEN <<"Commander deck has " \o ToString(main_count) \o "/99 cards">>
          ELSE <<>>)
         \o
         (IF side_count # 1
          THEN <<"Has " \o ToString(side_count) \o " commanders (needs 1)">>
          ELSE <<>>)
    ELSE (IF main_count < 60
          THEN <<"Maindeck has " \o ToString(main_count) \o "/60 cards">>
          ELSE <<>>)
         \o
         (IF side_count > 15
          THEN <<"Sideboard has " \o ToString(side_count) \o "/15 cards">>
          ELSE <<>>)

\* SizeReasons, with the sideboard checked only when the maindeck passes
SizeReasons_Elif(fmt, main_count, side_count) ==
    IF fmt = "commander"
    THEN (IF main_count # 99
          THEN <<"Commander deck has " \o ToString(main_count) \o "/99 cards">>
          ELSE <<>>)
         \o
         (IF side_count # 1
          THEN <<"Has " \o ToString(side_count) \o " commanders (needs 1)">>
          ELSE <<>>)
    ELSE IF main_count < 60
         THEN <<"Maindeck has " \o ToString(main_count) \o "/60 cards">>
         ELSE IF side_count > 15
         THEN <<"Sideboard has " \o ToString(side_count) \o "/15 cards">>
         ELSE <<>>

\* the messages check_deck_size appends
SizeReasons(fmt, main_count, side_count) ==
    IF fmt = "commander"
    THEN (IF main_count # 99
          THEN <<"Commander deck has " \o ToString(main_count) \o "/99 cards">>
          ELSE <<>>)
         \o
         (IF side_count # 1
          THEN <<"Has " \o ToString(side_count) \o " commanders (needs 1)">>
          ELSE <<>>)
    ELSE (IF main_count < 60
          THEN <<"Maindeck has " \o ToString(main_count) \o "/60 cards">>
          ELSE <<>>)
         \o
         (IF side_count > 15
          THEN <<"Sideboard has " \o ToString(side_count) \o "/15 cards">>
          ELSE <<>>)

\* LegalityReasons, showing the status as the catalog spells it
LegalityReasons_Raw(card_name, data, fmt) ==
    LET legality == Get(Get(data, "legalities", EmptyDict), fmt, None)
    IN  IF legality # LEGAL
        THEN LET status == IF Truthy(legality) THEN Str(legality) ELSE "not found"
             IN  <<card_name \o " is " \o status \o " in " \o fmt>>
        ELSE <<>>

\* the format legality check of _check_card
LegalityReasons(card_name, data, fmt) ==
    LET legality == Get(Get(data, "legalities", EmptyDict), fmt, None)
    IN  IF legality # LEGAL
        THEN LET status == IF Truthy(legality)
                           THEN Str(Replace(legality, "_", " "))
                           ELSE "not found"
             IN  <<card_name \o " is " \o status \o " in " \o fmt>>
        ELSE <<>>

\* QuantityReasons, with the Basic exemption ahead of the special limits
QuantityReasons_BasicFirst(card_name, quantity, data) ==
    IF StartsWith(Get(data, "type_line", <<>>), BASIC)
    THEN <<>>
    ELSE IF card_name \in DOMAIN SPECIAL_LIMIT_CARDS
    THEN IF quantity > SPECIAL_LIMIT_CARDS[card_name]
         THEN <<"Too many " \o card_name \o " (max "
                  \o ToString(SPECIAL_LIMIT_CARDS[card_name]) \o ")">>
         ELSE <<>>
    ELSE IF card_name \notin UNLIMITED_CARDS /\ quantity > 4
         THEN <<"Too many " \o card_name \o " (max 4)">>
         ELSE <<>>

\* QuantityReasons, with a default limit of 4 that four copies already break
QuantityReasons_AtLeast4(card_name, quantity, data) ==
    IF card_name \in DOMAIN SPECIAL_LIMIT_CARDS
    THEN IF quantity > SPECIAL_LIMIT_CARDS[card_name]
         THEN <<"Too many " \o card_name \o " (max "
                  \o ToString(SPECIAL_LIMIT_CARDS[card_name]) \o ")">>
         ELSE <<>>
    ELSE IF /\ card_name \notin UNLIMITED_CARDS
            /\ ~StartsWith(Get(data, "type_line", <<>>), BASIC)
            /\ quantity >= 4
         THEN <<"Too many " \o card_name \o " (max 4)">>
         ELSE <<>>

\* QuantityReasons, counting the copies of the name over the whole deck
QuantityReasons_Summed(card_name, quantity, data) ==
    LET SameName(c) == c.cardname = card_name
        copies == SumQuantity(SelectSeq(Cards, SameName))
    IN  IF card_name \in DOMAIN SPECIAL_LIMIT_CARDS
        THEN IF copies > SPECIAL_LIMIT_CARDS[card_name]
             THEN <<"Too many " \o card_name \o " (max "
                      \o ToString(SPECIAL_LIMIT_CARDS[card_name]) \o ")">>
             ELSE <<>>
        ELSE IF /\ card_name \notin UNLIMITED_CARDS
                /\ ~StartsWith(Get(data, "type_line", <<>>), BASIC)
                /\ copies > 4
             THEN <<"Too many " \o card_name \o " (max 4)">>
             ELSE <<>>

\* the quantity check of _check_card
QuantityReasons(card_name, quantity, data) ==
    IF card_name \in DOMAIN SPECIAL_LIMIT_CARDS
    THEN IF quantity > SPECIAL_LIMIT_CARDS[card_name]
         THEN <<"Too many " \o card_name \o " (max "
                  \o ToString(SPECIAL_LIMIT_CARDS[card_name]) \o ")">>
         ELSE <<>>
    ELSE IF /\ card_name \notin UNLIMITED_CARDS
            /\ ~StartsWith(Get(data, "type_line", <<>>), BASIC)
            /\ quantity > 4
         THEN <<"Too many " \o card_name \o " (max 4)">>
         ELSE <<>>

\* CardReasons, without "if not card_data: return"
CardReasons_NoEmptyCheck(card_name, quantity, data, fmt) ==
    LegalityReasons(card_name, data, fmt)
    \o QuantityReasons(card_name, quantity, data)

\* what _check_card appends once _fetch_card_data has returned data
CardReasons(card_name, quantity, data, fmt) ==
    IF DOMAIN data = {}
    THEN <<>>
    ELSE LegalityReasons(card_name, data, fmt)
         \o QuantityReasons(card_name, quantity, data)

\* the message _fetch_card_data appends when the request raises
ErrorReason(card_name, e) == "Error checking " \o card_name \o ": " \o e

\* self.reasons.append(m) for each m of msgs, by source t
AppendAll(t, msgs) ==
    /\ reasons' = reasons \o msgs
    /\ appended' = [appended EXCEPT ![t] = @ \o msgs]

\* no render is running
PlotterIdle ==
    /\ basic = FALSE
    /\ dimensions = <<0, 0>>
    /\ canvas = <<>>
    /\ card_count = 0
    /\ page_count = 0
    /\ deck_price = 0
    /\ saved = <<>>
    /\ plot_pc = "idle"
    /\ entry_idx = 0
    /\ card_faces = <<>>
    /\ face_idx = 0
    /\ copy_idx = 0
    /\ plot_requests = <<>>
    /\ placed = <<>>
    /\ total = 0
    /\ plot_response = <<>>
    /\ raised = ""

\* DeckChecker(deck, deck_format)
InitChecker(d, f, c) ==
    /\ deck = d
    /\ format = f
    /\ catalog = c
    /\ reasons = <<>>
    /\ appended = [t \in 0..(Len(d.maindeck) + Len(d.sidedeck)) |-> <<>>]
    /\ sem_value = SemaphorePermits
    /\ sem_waiters = <<>>
    /\ timers = <<>>
    /\ task_pc = [t \in 1..(Len(d.maindeck) + Len(d.sidedeck)) |-> "new"]
    /\ card_data = [t \in 1..(Len(d.maindeck) + Len(d.sidedeck)) |-> EmptyDict]
    /\ requests = [t \in 1..(Len(d.maindeck) + Len(d.sidedeck)) |-> 0]
    /\ response = [t \in 1..(Len(d.maindeck) + Len(d.sidedeck)) |-> <<"pending">>]
    /\ run_pc = "Created"
    /\ report = ""
    /\ PlotterIdle

\* run_checks: await self.check_deck_size()
check_deck_size ==
    /\ run_pc = "Created"
    /\ AppendAll(0, SizeReasons(format, SumQuantity(deck.maindeck),
                                SumQuantity(deck.sidedeck)))
    /\ run_pc' = "SizeChecked"
    /\ UNCHANGED plotter_vars
    /\ UNCHANGED <<deck, format, catalog, sem_value, sem_waiters, timers,
                   task_pc, card_data, requests, response, report>>

\* run_checks: check_all_cards builds one coroutine per entry, maindeck then
\* sidedeck, and awaits gather, which schedules them as tasks
check_all_cards ==
    /\ run_pc = "SizeChecked"
    /\ task_pc' = [t \in Tasks |-> "created"]
    /\ run_pc' = "Gathering"
    /\ UNCHANGED plotter_vars
    /\ UNCHANGED <<deck, format, catalog, reasons, appended, sem_value,
                   sem_waiters, timers, card_data, requests, response, report>>

\* Acquire, with a semaphore that never makes a task wait
Acquire_NoCap(t) ==
    /\ task_pc[t] = "created"
    /\ \A u \in Tasks : u < t => task_pc[u] # "created"
    /\ sem_value' = sem_value - 1
    /\ timers' = Append(timers, t)
    /\ task_pc' = [task_pc EXCEPT ![t] = "sleep"]
    /\ UNCHANGED sem_waiters
    /\ UNCHANGED plotter_vars
    /\ UNCHANGED <<deck, format, catalog, reasons, appended, card_data,
                   requests, response, run_pc, report>>

\* First step of a task: _check_card -> _fetch_card_data -> entering
\* "async with self._rate_limit_semaphore".  The event loop starts the tasks
\* in the order gather scheduled them.  A free permit is taken at once and
\* the task suspends in asyncio.sleep; otherwise the task queues up.
Acquire(t) ==
    /\ task_pc[t] = "created"
    /\ \A u \in Tasks : u < t => task_pc[u] # "created"
    /\ IF sem_value > 0 /\ sem_waiters = <<>>
       THEN /\ sem_value' = sem_value - 1
            /\ timers' = Append(timers, t)
            /\ task_pc' = [task_pc EXCEPT ![t] = "sleep"]
            /\ UNCHANGED sem_waiters
       ELSE /\ sem_waiters' = Append(sem_waiters, t)
            /\ task_pc' = [task_pc EXCEPT ![t] = "waiting"]
            /\ UNCHANGED <<sem_value, timers>>
    /\ UNCHANGED plotter_vars
    /\ UNCHANGED <<deck, format, catalog, reasons, appended, card_data,
                   requests, response, run_pc, report>>

\* a waiter that release() handed the permit to resumes and starts its delay
Resume(t) ==
    /\ task_pc[t] = "acquired"
    /\ timers' = Append(timers, t)
    /\ task_pc' = [task_pc EXCEPT ![t] = "sleep"]
    /\ UNCHANGED plotter_vars
    /\ UNCHANGED <<deck, format, catalog, reasons, appended, sem_value,
                   sem_waiters, card_data, requests, response, run_pc, report>>

\* SleepDone, with a request that is sent twice
SleepDone_Twice(t) ==
    /\ task_pc[t] = "sleep"
    /\ timers # <<>> /\ Head(timers) = t
    /\ timers' = Tail(timers)
    /\ task_pc' = [task_pc EXCEPT ![t] = "get"]
    /\ requests' = [requests EXCEPT ![t] = @ + 2]
    /\ UNCHANGED plotter_vars
    /\ UNCHANGED <<deck, format, catalog, reasons, appended, sem_value,
                   sem_waiters, card_data, response, run_pc, report>>

\* asyncio.sleep(SCRYFALL_DELAY) is over: the task issues session.get.  All
\* delays are equal, so the timers expire in the order they were armed.
SleepDone(t) ==
    /\ task_pc[t] = "sleep"
    /\ timers # <<>> /\ Head(timers) = t
    /\ timers' = Tail(timers)
    /\ task_pc' = [task_pc EXCEPT ![t] = "get"]
    /\ requests' = [requests EXCEPT ![t] = @ + 1]
    /\ UNCHANGED plotter_vars
    /\ UNCHANGED <<deck, format, catalog, reasons, appended, sem_value,
                   sem_waiters, card_data, response, run_pc, report>>

\* ReleaseAndFinish, with a release() that wakes no waiter
ReleaseAndFinish_NoWake(t) ==
    /\ sem_value' = sem_value + 1
    /\ task_pc' = [task_pc EXCEPT ![t] = "done"]
    /\ UNCHANGED sem_waiters

\* Leaving "async with self._rate_limit_semaphore" (Semaphore.release()), after
\* which task t runs to its end without suspending: the first waiter, if any,
\* gets the permit.
ReleaseAndFinish(t) ==
    IF sem_waiters = <<>>
    THEN /\ sem_value' = sem_value + 1
         /\ task_pc' = [task_pc EXCEPT ![t] = "done"]
         /\ UNCHANGED sem_waiters
    ELSE /\ sem_waiters' = Tail(sem_waiters)
         /\ task_pc' = [task_pc EXCEPT ![t] = "done",
                                       ![Head(sem_waiters)] = "acquired"]
         /\ UNCHANGED sem_value

\* the request succeeds with JSON body data: _fetch_card_data returns it and
\* _check_card evaluates the rules
FetchOk(t, data) ==
    /\ task_pc[t] = "get"
    /\ data \in catalog.bodies
    /\ card_data' = [card_data EXCEPT ![t] = data]
    /\ response' = [response EXCEPT ![t] = <<"ok", data>>]
    /\ ReleaseAndFinish(t)
    /\ AppendAll(t, CardReasons(Cards[t].cardname, Cards[t].quantity, data, format))
    /\ UNCHANGED plotter_vars
    /\ UNCHANGED <<deck, format, catalog, timers, requests, run_pc, report>>

\* the request raises e: _fetch_card_data appends the error and returns {},
\* which _check_card takes as "nothing to check"
FetchError(t, e) ==
    /\ task_pc[t] = "get"
    /\ e \in catalog.errors
    /\ card_data' = [card_data EXCEPT ![t] = EmptyDict]
    /\ response' = [response EXCEPT ![t] = <<"error", e>>]
    /\ ReleaseAndFinish(t)
    /\ AppendAll(t, <<ErrorReason(Cards[t].cardname, e)>>
                    \o CardReasons(Cards[t].cardname, Cards[t].quantity,
                                   EmptyDict, format))
    /\ UNCHANGED plotter_vars
    /\ UNCHANGED <<deck, format, catalog, timers, requests, run_pc, report>>

\* gather_done, returning with the first task that is done
gather_done_Early ==
    /\ run_pc = "Gathering"
    /\ \E t \in Tasks : task_pc[t] = "done"
    /\ run_pc' = "CardsChecked"
    /\ UNCHANGED plotter_vars
    /\ UNCHANGED <<deck, format, catalog, reasons, appended, sem_value,
                   sem_waiters, timers, task_pc, card_data, requests, response, report>>

\* gather returns once every task is done, and check_all_cards with it
gather_done ==
    /\ run_pc = "Gathering"
    /\ \A t \in Tasks : task_pc[t] = "done"
    /\ run_pc' = "CardsChecked"
    /\ UNCHANGED plotter_vars
    /\ UNCHANGED <<deck, format, catalog, reasons, appended, sem_value,
                   sem_waiters, timers, task_pc, card_data, requests, response, report>>

\* Report, with the messages joined by a blank
Report_Blank(rs, fmt) == IF rs # <<>> THEN Join(" ", rs) ELSE "Legal in " \o fmt

\* the return value of run_checks
Report(rs, fmt) == IF rs # <<>> THEN Join("\n", rs) ELSE "Legal in " \o fmt

run_checks_return ==
    /\ run_pc = "CardsChecked"
    /\ report' = Report(reasons, format)
    /\ run_pc' = "Reported"
    /\ UNCHANGED plotter_vars
    /\ UNCHANGED <<deck, format, catalog, reasons, appended, sem_value,
                   sem_waiters, timers, task_pc, card_data, requests, response>>

----------------------------------------------------------------------------
(* plot_deck_async *)

PPI == 300

\* (int(2.5 * PPI), int(3.5 * PPI))
MTG_CARD_SIZE == <<(25 * PPI) \div 10, (35 * PPI) \div 10>>

\* the parameter gap, which no caller passes
gap == 0

\* Path(deck_path).stem
deck_name == "deck"

\* needle in haystack, for strings
Contains(cs, needle) ==
    \E i \in 0..(Len(cs) - Len(needle)) : SubSeq(cs, i + 1, i + Len(needle)) = needle

cards_per_row == (dimensions[1] - 100) \div (MTG_CARD_SIZE[1] + gap)
cards_per_col == (dimensions[2] - 100) \div (MTG_CARD_SIZE[2] + gap)
max_cards == cards_per_row * cards_per_col

\* PasteX, with the column index of the image on the x axis
PasteX_RowMajor(count) == 50 + (count % cards_per_row) * (MTG_CARD_SIZE[1] + gap)

\* where the next image is pasted
PasteX(count) == 50 + (count \div cards_per_row) * (MTG_CARD_SIZE[1] + gap)
PasteY(count) == 50 + (count % cards_per_row) * (MTG_CARD_SIZE[2] + gap)

\* f"{deck_name}_{page_count}.png"
PageName(page) == deck_name \o "_" \o ToString(page) \o ".png"

\* response.get('prices', {}).get('usd') is truthy
HasPrice(data) == "usd" \in DOMAIN Get(data, "prices", EmptyDict)

\* the image URLs of a card: its combined image, else one per face
CardFaces(data) ==
    IF "image_uris" \notin DOMAIN data
    THEN LET faces == Get(data, "card_faces", <<>>)
         IN  [i \in DOMAIN faces |-> faces[i].image_uris.large]
    ELSE <<data.image_uris.large>>

\* SkipsBasic, for every type line that begins with "Basic"
SkipsBasic_AnyBasic(data) == ~basic /\ StartsWith(Get(data, "type_line", <<>>), BASIC)

\* "not basic and 'Basic Land' in response.get('type_line', '')"
SkipsBasic(data) == ~basic /\ Contains(Get(data, "type_line", <<>>), BASIC_LAND)

\* bodies the catalog may return to the plotter, prices in cents
Image(url) == [large |-> url]
PricedCard ==
    [prices |-> [usd |-> 150], type_line |-> INSTANT, image_uris |-> Image("bolt.jpg")]
UnpricedCard ==
    [prices |-> EmptyDict, type_line |-> INSTANT, image_uris |-> Image("bolt.jpg")]
DoubleFacedCard ==
    [prices |-> [usd |-> 25], type_line |-> INSTANT,
     card_faces |-> << [image_uris |-> Image("front.jpg")],
                       [image_uris |-> Image("back.jpg")] >>]
BasicLandCard ==
    [prices |-> [usd |-> 10], type_line |-> BASIC_LAND, image_uris |-> Image("forest.jpg")]
UnpricedBasic ==
    [prices |-> EmptyDict, type_line |-> BASIC_LAND, image_uris |-> Image("forest.jpg")]
SnowBasicCard ==
    [prices |-> [usd |-> 40], type_line |-> BASIC_SNOW_LAND,
     image_uris |-> Image("snow.jpg")]
FacelessCard == [prices |-> [usd |-> 5], type_line |-> INSTANT]

PlotBodies ==
    {PricedCard, UnpricedCard, DoubleFacedCard, BasicLandCard, UnpricedBasic,
     SnowBasicCard, FacelessCard}
PlotCatalog == [bodies |-> PlotBodies, errors |-> {"Cannot connect to host"}]

\* <<width, height>> in pixels: Letter (3 x 3 cards), and custom sizes of
\* 2 x 2, 1 x 1, 2 x 1, 1 x 2 and 0 x 0 cards
PageSizes ==
    { <<2551, 3295>>, <<1700, 2200>>, <<850, 1150>>, <<1700, 1150>>, <<850, 2200>>,
      <<700, 1100>> }

PlotQuantities == {1, MaxQuantity}
PlotEntries == { Entry("Delver of Secrets", q) : q \in PlotQuantities }
PlotDecks ==
    { [maindeck |-> m, sidedeck |-> s] :
        m \in SeqsUpTo(PlotEntries, 1, MaxMain),
        s \in SeqsUpTo({Entry("Delver of Secrets", 1)}, 0, 1) }

\* no legality check is running
CheckerIdle ==
    /\ format = "modern"
    /\ reasons = <<>>
    /\ appended = <<>>
    /\ sem_value = SemaphorePermits
    /\ sem_waiters = <<>>
    /\ timers = <<>>
    /\ task_pc = <<>>
    /\ card_data = <<>>
    /\ requests = <<>>
    /\ response = <<>>
    /\ run_pc = "idle"
    /\ report = ""

\* plot_deck_async up to its loop over the deck
InitPlotter(d, b, dims) ==
    /\ deck = d
    /\ catalog = PlotCatalog
    /\ basic = b
    /\ dimensions = dims
    /\ canvas = <<>>
    /\ card_count = 0
    /\ page_count = 1
    /\ deck_price = 0
    /\ saved = <<>>
    /\ plot_pc = "loop"
    /\ entry_idx = 1
    /\ card_faces = <<>>
    /\ face_idx = 0
    /\ copy_idx = 0
    /\ plot_requests = [i \in 1..(Len(d.maindeck) + Len(d.sidedeck)) |-> 0]
    /\ placed = [i \in 1..(Len(d.maindeck) + Len(d.sidedeck)) |-> 0]
    /\ total = 0
    /\ plot_response = [i \in 1..(Len(d.maindeck) + Len(d.sidedeck)) |-> <<"pending">>]
    /\ raised = ""
    /\ CheckerIdle

\* One iteration of "for card in deck['maindeck'] + deck['sidedeck']" up to the
\* image fetch: fetch_card_data returns data, the price is added, a basic land
\* may be skipped, the image URLs are collected and the card is printed
\* (price * quantity raises TypeError when price is None).
PlotFetchCard(data) ==
    /\ plot_pc = "loop"
    /\ entry_idx <= Len(Cards)
    /\ data \in catalog.bodies
    /\ plot_requests' = [plot_requests EXCEPT ![entry_idx] = @ + 1]
    /\ plot_response' = [plot_response EXCEPT ![entry_idx] = <<"ok", data>>]
    /\ deck_price' = IF HasPrice(data)
                     THEN deck_price + data.prices.usd * Cards[entry_idx].quantity
                     ELSE deck_price
    /\ IF SkipsBasic(data)
       THEN /\ entry_idx' = entry_idx + 1
            /\ UNCHANGED <<plot_pc, card_faces, raised>>
       ELSE IF ~HasPrice(data)
       THEN /\ plot_pc' = "failed"
            /\ raised' = "TypeError"
            /\ card_faces' = CardFaces(data)
            /\ UNCHANGED entry_idx
       ELSE /\ plot_pc' = "images"
            /\ card_faces' = CardFaces(data)
            /\ UNCHANGED <<entry_idx, raised>>
    /\ UNCHANGED <<basic, dimensions, canvas, card_count, page_count, saved,
                   face_idx, copy_idx, placed, total>>
    /\ UNCHANGED <<deck, catalog, checker_vars>>

\* asyncio.gather(fetch_image ...) returns the images of the current entry
PlotFetchImages ==
    /\ plot_pc = "images"
    /\ IF card_faces = <<>> \/ Cards[entry_idx].quantity <= 0
       THEN /\ entry_idx' = entry_idx + 1
            /\ plot_pc' = "loop"
            /\ UNCHANGED <<face_idx, copy_idx>>
       ELSE /\ plot_pc' = "place"
            /\ face_idx' = 1
            /\ copy_idx' = 0
            /\ UNCHANGED entry_idx
    /\ UNCHANGED <<basic, dimensions, canvas, card_count, page_count, deck_price,
                   saved, card_faces, plot_requests, placed, total,
                   plot_response, raised>>
    /\ UNCHANGED <<deck, catalog, checker_vars>>

\* a request of the render raises: nothing catches it
PlotFetchError(e) ==
    /\ \/ plot_pc = "loop" /\ entry_idx <= Len(Cards)
       \/ plot_pc = "images"
    /\ e \in catalog.errors
    /\ plot_pc' = "failed"
    /\ raised' = e
    /\ plot_requests' = IF plot_pc = "loop"
                        THEN [plot_requests EXCEPT ![entry_idx] = @ + 1]
                        ELSE plot_requests
    /\ plot_response' = IF plot_pc = "loop"
                        THEN [plot_response EXCEPT ![entry_idx] = <<"error", e>>]
                        ELSE plot_response
    /\ UNCHANGED <<basic, dimensions, canvas, card_count, page_count, deck_price,
                   saved, entry_idx, card_faces, face_idx, copy_idx, placed, total>>
    /\ UNCHANGED <<deck, catalog, checker_vars>>

\* the loop variables after one more iteration of "for _ in range(quantity)"
NextCopy ==
    IF copy_idx + 1 < Cards[entry_idx].quantity
    THEN /\ copy_idx' = copy_idx + 1
         /\ UNCHANGED <<face_idx, entry_idx, plot_pc>>
    ELSE IF face_idx < Len(card_faces)
    THEN /\ copy_idx' = 0
         /\ face_idx' = face_idx + 1
         /\ UNCHANGED <<entry_idx, plot_pc>>
    ELSE /\ entry_idx' = entry_idx + 1
         /\ plot_pc' = "loop"
         /\ UNCHANGED <<face_idx, copy_idx>>

\* what one paste leaves: the canvas, the counters and the saved pages
Paste(img) ==
    LET pasted == Append(canvas, [img |-> img, x |-> PasteX(card_count),
                                  y |-> PasteY(card_count)])
    IN  IF card_count + 1 = max_cards
        THEN /\ saved' = Append(saved, [name |-> PageName(page_count),
                                        canvas |-> pasted])
             /\ page_count' = page_count + 1
             /\ card_count' = 0
             /\ canvas' = <<>>
        ELSE /\ canvas' = pasted
             /\ card_count' = card_count + 1
             /\ UNCHANGED <<saved, page_count>>

\* one iteration of "for _ in range(quantity)": paste, count, flush a full page
\* (card_count // cards_per_row raises ZeroDivisionError on a page too narrow)
PlaceImage ==
    /\ plot_pc = "place"
    /\ IF cards_per_row = 0
       THEN /\ plot_pc' = "failed"
            /\ raised' = "ZeroDivisionError"
            /\ UNCHANGED <<canvas, card_count, page_count, saved, entry_idx,
                           face_idx, copy_idx, placed>>
       ELSE /\ Paste(card_faces[face_idx])
            /\ placed' = [placed EXCEPT ![entry_idx] = @ + 1]
            /\ NextCopy
            /\ UNCHANGED raised
    /\ UNCHANGED <<basic, dimensions, deck_price, card_faces, plot_requests, total,
                   plot_response>>
    /\ UNCHANGED <<deck, catalog, checker_vars>>

\* FinalSave, for a trailing page of at least one image
FinalSave_AnyImage ==
    IF card_count > 0
    THEN Append(saved, [name |-> PageName(page_count), canvas |-> canvas])
    ELSE saved

\* the pages saved once the loop is over
FinalSave ==
    IF card_count > 1
    THEN Append(saved, [name |-> PageName(page_count), canvas |-> canvas])
    ELSE saved

\* after the loop: the trailing page is saved and the total is returned
PlotReturn ==
    /\ plot_pc = "loop"
    /\ entry_idx > Len(Cards)
    /\ saved' = FinalSave
    /\ total' = deck_price
    /\ plot_pc' = "done"
    /\ UNCHANGED <<basic, dimensions, canvas, card_count, page_count, deck_price,
                   entry_idx, card_faces, face_idx, copy_idx, plot_requests, placed,
                   plot_response, raised>>
    /\ UNCHANGED <<deck, catalog, checker_vars>>

----------------------------------------------------------------------------
(* Specifications *)

Init ==
    \/ \E d \in SmallDecks, f \in Formats : InitChecker(d, f, SmallCatalog)
    \/ \E d \in SizedDecks, f \in Formats : InitChecker(d, f, AnyCatalog)
    \/ \E c \in {PlainCatalog, DownCatalog} : InitChecker(LargeDeck, "modern", c)

Next ==
    \/ check_deck_size
    \/ check_all_cards
    \/ \E t \in Tasks : Acquire(t)
    \/ \E t \in Tasks : Resume(t)
    \/ \E t \in Tasks : SleepDone(t)
    \/ \E t \in Tasks : \E data \in AllBodies : FetchOk(t, data)
    \/ \E t \in Tasks : \E e \in AllErrors : FetchError(t, e)
    \/ gather_done
    \/ run_checks_return

Spec == Init /\ [][Next]_vars

\* The event loop runs every callback that is ready, and every request that
\* was issued eventually returns or raises (the session's timeout at the
\* latest).
Fairness ==
    /\ WF_vars(check_deck_size)
    /\ WF_vars(check_all_cards)
    /\ WF_vars(gather_done)
    /\ WF_vars(run_checks_return)
    /\ WF_vars(\E t \in Tasks : Acquire(t))
    /\ WF_vars(\E t \in Tasks : Resume(t))
    /\ WF_vars(\E t \in Tasks : SleepDone(t))
    /\ WF_vars(\E t \in Tasks : \/ \E data \in AllBodies : FetchOk(t, data)
                                 \/ \E e \in AllErrors : FetchError(t, e))

InitLive ==
    \/ \E d \in SmallDecks : InitChecker(d, "commander", SmallCatalog)
    \/ \E c \in {PlainCatalog, DownCatalog} : InitChecker(LargeDeck, "modern", c)

SpecLive == InitLive /\ [][Next]_vars /\ Fairness

InitPlot ==
    \E d \in PlotDecks, b \in BOOLEAN, dims \in PageSizes : InitPlotter(d, b, dims)

NextPlot ==
    \/ \E data \in PlotBodies : PlotFetchCard(data)
    \/ PlotFetchImages
    \/ \E e \in PlotCatalog.errors : PlotFetchError(e)
    \/ PlaceImage
    \/ PlotReturn

SpecPlot == InitPlot /\ [][NextPlot]_vars

\* async_main runs the legality check, and the render when asked to print:
\* either of the two, each from its own start
InitMain == Init \/ InitPlot

NextMain ==
    \/ run_pc # "idle" /\ Next
    \/ plot_pc # "idle" /\ NextPlot

SpecMain == InitMain /\ [][NextMain]_vars

----------------------------------------------------------------------------
(* Properties *)

Range(f) == { f[i] : i \in DOMAIN f }

RECURSIVE SumTo(_, _)
\* f[1] + ... + f[n]
SumTo(f, n) == IF n = 0 THEN 0 ELSE SumTo(f, n - 1) + f[n]

RECURSIVE InSourceOrder(_)
\* appended[0] \o appended[1] \o ... \o appended[n]
InSourceOrder(n) ==
    IF n = 0 THEN appended[0] ELSE InSourceOrder(n - 1) \o appended[n]

Failed(t) == response[t][1] = "error"
Answered(t) == response[t][1] = "ok"
\* the request returned metadata: a body that is not the empty object
Fetched(t) == Answered(t) /\ DOMAIN response[t][2] # {}

\* C1: whatever the order in which the catalog answers, the final list of
\* violations is: the size messages (maindeck, then sideboard), then the
\* messages of the card entries in deck order (maindeck entries, then sidedeck
\* entries), each entry's legality message before its quantity message.
C1_DeterministicOrder ==
    run_pc = "Reported" => reasons = InSourceOrder(Len(Cards))

\* the transitions of a task: created -> (waiting -> acquired ->) sleep -> get
\* -> done
TaskSteps ==
    { <<"new", "created">>, <<"created", "sleep">>, <<"created", "waiting">>,
      <<"waiting", "acquired">>, <<"acquired", "sleep">>, <<"sleep", "get">>,
      <<"get", "done">> }

\* C2: at most 10 requests hold a permit at any moment, the permits held and
\* the free permits add up to 10, a task delays only with a permit and calls
\* the network only after its delay, every way a request ends releases the
\* permit, and all 10 permits are free once check_all_cards has returned.
C2_PermitCap ==
    /\ [](/\ Cardinality(InFlight) <= 10
          /\ sem_value >= 0
          /\ sem_value + Cardinality(InFlight) = 10
          /\ \A t \in Tasks :
                /\ task_pc[t] \in {"new", "created", "waiting", "acquired", "sleep"}
                      => requests[t] = 0 /\ response[t] = <<"pending">>
                /\ task_pc[t] = "get" => requests[t] = 1 /\ response[t] = <<"pending">>
                /\ task_pc[t] = "done" => requests[t] = 1 /\ response[t] # <<"pending">>
          /\ run_pc \in {"CardsChecked", "Reported"}
                => sem_value = 10 /\ sem_waiters = <<>> /\ InFlight = {})
    /\ [][\A t \in Tasks :
            task_pc'[t] # task_pc[t] => <<task_pc[t], task_pc'[t]>> \in TaskSteps]_vars

\* a request has failed, its permit went to the task that was waiting, and 10
\* requests are in flight again
C2_Witness ==
    /\ Len(Cards) > 10
    /\ Cardinality(InFlight) = 10
    /\ \E t \in Tasks : task_pc[t] = "acquired"
    /\ \E t \in Tasks : Failed(t)

----------------------------------------------------------------------------
(* What the rules ask of one entry, stated from the deck and the answers *)

CardName(t) == Cards[t].cardname
Quantity(t) == Cards[t].quantity
Body(t) == response[t][2]

HasStatus(t) ==
    /\ "legalities" \in DOMAIN Body(t)
    /\ format \in DOMAIN Body(t).legalities

\* the status as the message shows it
ShownStatus(t) ==
    IF ~HasStatus(t) THEN "not found"
    ELSE CASE Body(t).legalities[format] = NOT_LEGAL -> "not legal"
           [] Body(t).legalities[format] = BANNED -> "banned"
           [] OTHER -> "?"

IsLegal(t) == HasStatus(t) /\ Body(t).legalities[format] = LEGAL

LegalityMessage(t) == CardName(t) \o " is " \o ShownStatus(t) \o " in " \o format

\* every text a legality message of entry t could have
LegalityMessages(t) ==
    { CardName(t) \o " is " \o s \o " in " \o format :
        s \in {"not found", "not legal", "not_legal", "banned", "legal", "?"} }

TooMany(t, max) == "Too many " \o CardName(t) \o " (max " \o max \o ")"

BeginsWithBasic(t) ==
    /\ "type_line" \in DOMAIN Body(t)
    /\ Body(t).type_line \in {BASIC_LAND, BASIC_SNOW_LAND}

OverLimit(t) ==
    IF CardName(t) = "Seven Dwarves" THEN Quantity(t) > 7
    ELSE /\ CardName(t) \notin {"Persistent Petitioners", "Rat Colony",
                                "Relentless Rats", "Shadowborn Apostle",
                                "Dragon's Approach"}
         /\ ~BeginsWithBasic(t)
         /\ Quantity(t) > 4

ExpectedOfCard(t) ==
    (IF IsLegal(t) THEN <<>> ELSE <<LegalityMessage(t)>>)
    \o (IF OverLimit(t)
        THEN <<TooMany(t, IF CardName(t) = "Seven Dwarves" THEN "7" ELSE "4")>>
        ELSE <<>>)

MainTotal == SumQuantity(deck.maindeck)
SideTotal == SumQuantity(deck.sidedeck)

\* C3: a failed fetch leaves exactly the one message "Error checking {name}:
\* {error}" for its entry and nothing else, the run goes on to its report, and
\* every other entry is requested once and gets the messages its own answer
\* calls for.
C3_FetchFailureIsolated ==
    /\ run_pc \in {"Created", "SizeChecked", "Gathering", "CardsChecked", "Reported"}
    /\ \A t \in Tasks :
          /\ Failed(t) =>
                /\ appended[t] = <<"Error checking " \o CardName(t) \o ": " \o Body(t)>>
                /\ task_pc[t] = "done"
          /\ Fetched(t) => appended[t] = ExpectedOfCard(t)
    /\ run_pc \in {"CardsChecked", "Reported"} =>
          \A t \in Tasks : requests[t] = 1 /\ response[t] # <<"pending">>

\* one fetch failed, and a later entry of the same deck was evaluated and
\* found in violation
C3_Witness ==
    /\ run_pc = "Reported"
    /\ \E t, u \in Tasks : t < u /\ Failed(t) /\ Fetched(u) /\ appended[u] # <<>>

\* the lines joined by newline, built from the left
JoinedByNewline(rs) ==
    LET J[i \in 1..Len(rs)] == IF i = 1 THEN rs[1] ELSE J[i - 1] \o "\n" \o rs[i]
    IN  J[Len(rs)]

NothingAppended == \A src \in DOMAIN appended : appended[src] = <<>>

\* maindeck of 60, no sidedeck, not commander, every card fetched, legal and
\* within its limit
CleanSixty ==
    /\ format # "commander"
    /\ MainTotal = 60
    /\ SideTotal = 0
    /\ \A t \in Tasks : Fetched(t) /\ IsLegal(t) /\ ~OverLimit(t)

\* C4: the report is "Legal in {format}" exactly when nothing was appended
\* during the run, and otherwise the appended messages joined by newline in
\* append order; a clean 60-card deck is reported legal.
C4_Report ==
    run_pc = "Reported" =>
        /\ (report = "Legal in " \o format) <=> NothingAppended
        /\ ~NothingAppended => report = JoinedByNewline(reasons)
        /\ Len(reasons) = SumTo([i \in 1..(Len(Cards) + 1) |-> Len(appended[i - 1])],
                               Len(Cards) + 1)
        /\ CleanSixty => report = "Legal in " \o format

C4_Witness ==
    /\ run_pc = "Reported"
    /\ CleanSixty
    /\ report = "Legal in modern"

CommanderMainMessage == "Commander deck has " \o ToString(MainTotal) \o "/99 cards"
CommanderSideMessage == "Has " \o ToString(SideTotal) \o " commanders (needs 1)"

\* C5: in commander, the size check appends the maindeck message, with the
\* actual count, exactly when the maindeck total is not 99 and the commander
\* message exactly when the sidedeck total is not 1; with 99 and 1 it appends
\* nothing.
C5_CommanderSize ==
    (format = "commander" /\ run_pc \notin {"Created", "idle"}) =>
        /\ (CommanderMainMessage \in Range(appended[0])) <=> (MainTotal # 99)
        /\ (CommanderSideMessage \in Range(appended[0])) <=> (SideTotal # 1)
        /\ Range(appended[0]) \subseteq {CommanderMainMessage, CommanderSideMessage}
        /\ Len(appended[0]) = Cardinality(Range(appended[0]))
        /\ (MainTotal = 99 /\ SideTotal = 1) => appended[0] = <<>>

\* a commander deck of 99 + 1 whose cards are in violation
C5_Witness ==
    /\ format = "commander"
    /\ run_pc = "Reported"
    /\ MainTotal = 99 /\ SideTotal = 1
    /\ appended[0] = <<>>
    /\ \E t \in Tasks : Fetched(t) /\ appended[t] # <<>>

MaindeckMessage == "Maindeck has " \o ToString(MainTotal) \o "/60 cards"
SideboardMessage == "Sideboard has " \o ToString(SideTotal) \o "/15 cards"

\* C6: in any other format, the size check appends the maindeck message
\* exactly when the maindeck total is below 60 and the sideboard message
\* exactly when the sidedeck total is above 15, each whatever the other does,
\* the maindeck message first; a maindeck above 60 is no violation.
C6_ConstructedSize ==
    (format # "commander" /\ run_pc \notin {"Created", "idle"}) =>
        appended[0] = (IF MainTotal < 60 THEN <<MaindeckMessage>> ELSE <<>>)
                      \o (IF SideTotal > 15 THEN <<SideboardMessage>> ELSE <<>>)

\* both size messages of a constructed deck
C6_Witness ==
    /\ format = "modern"
    /\ run_pc = "Reported"
    /\ MainTotal < 60 /\ SideTotal > 15
    /\ appended[0] = <<MaindeckMessage, SideboardMessage>>

\* how many of the messages msgs are in the set texts
Count(msgs, texts) == Cardinality({ i \in DOMAIN msgs : msgs[i] \in texts })

\* C7: an entry whose metadata was fetched gets a legality message exactly
\* when legalities[format] is not "legal"; the message names the card and the
\* status, "not found" for a missing status or mapping, underscores shown as
\* blanks; it gets at most one.
C7_LegalityMessage ==
    \A t \in Tasks : Fetched(t) =>
        /\ Count(appended[t], LegalityMessages(t)) = (IF IsLegal(t) THEN 0 ELSE 1)
        /\ ~IsLegal(t) => appended[t][1] = LegalityMessage(t)

\* a status with an underscore, and a missing status, as the messages show them
C7_Witness ==
    \E t, u \in Tasks :
        /\ Fetched(t) /\ HasStatus(t) /\ Body(t).legalities[format] = NOT_LEGAL
        /\ appended[t][1] = CardName(t) \o " is not legal in " \o format
        /\ Fetched(u) /\ ~HasStatus(u)
        /\ appended[u][1] = CardName(u) \o " is not found in " \o format

\* C8: a fetched entry named "Seven Dwarves" gets the message "(max 7)"
\* exactly when its quantity is above 7, whatever its type line, and never
\* the message of the default limit.
C8_SevenDwarves ==
    \A t \in Tasks : (Fetched(t) /\ CardName(t) = "Seven Dwarves") =>
        /\ Count(appended[t], {"Too many Seven Dwarves (max 7)"})
              = (IF Quantity(t) > 7 THEN 1 ELSE 0)
        /\ Count(appended[t], {"Too many Seven Dwarves (max 4)"}) = 0

\* eight Seven Dwarves are too many even with a Basic type line
C8_Witness ==
    \E t \in Tasks :
        /\ Fetched(t) /\ CardName(t) = "Seven Dwarves"
        /\ Quantity(t) = 8
        /\ BeginsWithBasic(t)
        /\ "Too many Seven Dwarves (max 7)" \in Range(appended[t])
        /\ run_pc = "Reported"

\* C9: a fetched entry outside the special limits gets "Too many {name}
\* (max 4)" once when its name is not allowlisted, its type line does not
\* begin with "Basic" and its quantity is above 4, and no quantity message
\* otherwise.
C9_DefaultLimit ==
    \A t \in Tasks : (Fetched(t) /\ CardName(t) # "Seven Dwarves") =>
        /\ Count(appended[t], {TooMany(t, "4")})
              = (IF /\ CardName(t) \notin UNLIMITED_CARDS
                    /\ ~BeginsWithBasic(t)
                    /\ Quantity(t) > 4
                 THEN 1 ELSE 0)
        /\ Count(appended[t], {TooMany(t, "7")}) = 0

\* five legal copies outside every exception: the one message
C9_Witness ==
    \E t \in Tasks :
        /\ Fetched(t) /\ CardName(t) = "Lightning Bolt" /\ Quantity(t) = 5
        /\ ~BeginsWithBasic(t)
        /\ appended[t] = <<"Too many Lightning Bolt (max 4)">>
        /\ run_pc = "Reported"

----------------------------------------------------------------------------
(* Properties of plot_deck_async *)

\* the images pasted so far
TotalPlaced == SumTo(placed, Len(placed))

\* every page saved so far was saved full, under its page number, and the
\* counter is that of the page being filled
FullPagesSaved ==
    /\ card_count < max_cards
    /\ Len(canvas) = card_count
    /\ page_count = Len(saved) + 1
    /\ \A k \in 1..Len(saved) :
          /\ saved[k].name = deck_name \o "_" \o ToString(k) \o ".png"
          /\ Len(saved[k].canvas) = max_cards
    /\ TotalPlaced = max_cards * Len(saved) + card_count

\* C10: with capacity C >= 1 a page is saved as {deckName}_{pageNumber}.png
\* each time the counter reaches C, the page number then grows by one and the
\* page and the counter start afresh; C images in all give one saved page and
\* no leftover, C + 1 images in all give two saved pages, the second with
\* exactly 1 image.
C10_Pagination ==
    (plot_pc # "idle" /\ max_cards >= 1) =>
        /\ plot_pc # "done" => FullPagesSaved
        /\ (plot_pc = "done" /\ TotalPlaced = max_cards)
              => Len(saved) = 1 /\ card_count = 0
        /\ (plot_pc = "done" /\ TotalPlaced = max_cards + 1)
              => Len(saved) = 2 /\ Len(saved[2].canvas) = 1

----------------------------------------------------------------------------
(* The render, stated from the deck and from what the catalog answered *)

PlotAnswered(i) == plot_response[i][1] = "ok"
PlotBody(i) == plot_response[i][2]

\* the price of entry i in cents, 0 when its metadata has no prices.usd
PriceOf(i) ==
    IF /\ PlotAnswered(i)
       /\ "prices" \in DOMAIN PlotBody(i)
       /\ "usd" \in DOMAIN PlotBody(i).prices
    THEN PlotBody(i).prices.usd
    ELSE 0

\* the sum of price x quantity over the entries answered so far
PriceSum ==
    SumTo([i \in 1..Len(Cards) |-> PriceOf(i) * Cards[i].quantity], Len(Cards))

\* C11: the running total is the sum of price x quantity over the entries of
\* maindeck and sidedeck, an entry without prices.usd counting 0 and an entry
\* skipped as a basic land counting its price; the total returned is that sum;
\* an absent price never makes the render fail.
C11_PriceTotal ==
    plot_pc # "idle" =>
        /\ deck_price = PriceSum
        /\ plot_pc = "done" => total = PriceSum
        /\ raised # "TypeError"

\* the type line of entry i contains "Basic Land"
HasBasicLand(i) ==
    /\ "type_line" \in DOMAIN PlotBody(i)
    /\ \E k \in 1..Len(PlotBody(i).type_line) :
          /\ k + 9 <= Len(PlotBody(i).type_line)
          /\ \A j \in 0..9 : PlotBody(i).type_line[k + j] = BASIC_LAND[j + 1]

\* the images of one copy of entry i: none for a skipped basic land, the
\* combined image, or one image per face
FaceImages(i) ==
    IF ~basic /\ HasBasicLand(i) THEN <<>>
    ELSE IF "image_uris" \in DOMAIN PlotBody(i) THEN <<PlotBody(i).image_uris.large>>
    ELSE IF "card_faces" \in DOMAIN PlotBody(i)
    THEN [f \in 1..Len(PlotBody(i).card_faces) |->
              PlotBody(i).card_faces[f].image_uris.large]
    ELSE <<>>

\* the images entry i asks for: quantity copies of the first face, then
\* quantity copies of the next
ExpectedImages(i) ==
    LET faces == FaceImages(i)
        copies == Cards[i].quantity
    IN  [k \in 1..(copies * Len(faces)) |-> faces[((k - 1) \div copies) + 1]]

\* the pages filled so far, the one being filled last
Pages == [k \in 1..page_count |->
             IF k < page_count THEN saved[k].canvas ELSE canvas]

RECURSIVE Flatten(_)
Flatten(ss) == IF ss = <<>> THEN <<>> ELSE Head(ss) \o Flatten(Tail(ss))

\* every paste made so far, in order
Pasted == Flatten(Pages)

\* the pastes made before those of entry i
PlacedBefore(i) == SumTo(placed, i - 1)

\* C12: an entry places 0 images when includeBasics is false and its type line
\* contains "Basic Land", else quantity images of its combined image, else
\* quantity images of each face, all copies of a face before the next face;
\* the entries are processed in maindeck-then-sidedeck order.
C12_ImagesPerEntry ==
    plot_pc # "idle" =>
        LET pasted == Pasted
        IN  /\ Len(pasted) = SumTo(placed, Len(placed))
            /\ \A i \in 1..Len(Cards) :
                  /\ i < entry_idx =>
                        /\ PlotAnswered(i)
                        /\ placed[i] = Cards[i].quantity * Len(FaceImages(i))
                  /\ i > entry_idx =>
                        plot_response[i] = <<"pending">> /\ placed[i] = 0
                  /\ placed[i] > 0 =>
                        LET expected == ExpectedImages(i)
                            before == PlacedBefore(i)
                        IN  /\ PlotAnswered(i)
                            /\ placed[i] <= Len(expected)
                            /\ \A k \in 1..placed[i] :
                                  pasted[before + k].img = expected[k]

C12_Witness ==
    /\ plot_pc = "done"
    /\ ~basic
    /\ \E i, j, l \in 1..Len(Cards) :
          /\ PlotBody(i) = DoubleFacedCard /\ Cards[i].quantity = MaxQuantity
          /\ placed[i] = 2 * MaxQuantity
          /\ PlotBody(j) = BasicLandCard /\ placed[j] = 0
          /\ PlotBody(l) = SnowBasicCard /\ placed[l] = Cards[l].quantity

\* C13: once every entry is processed the trailing page is saved as a final
\* page exactly when it holds more than one image; with no image or with one
\* image it is not saved.
C13_FinalPage ==
    plot_pc = "done" =>
        /\ Len(canvas) = card_count
        /\ \A k \in 1..(page_count - 1) :
              k <= Len(saved) /\ saved[k].name = deck_name \o "_" \o ToString(k) \o ".png"
        /\ IF card_count > 1
           THEN /\ Len(saved) = page_count
                /\ saved[page_count].name
                      = deck_name \o "_" \o ToString(page_count) \o ".png"
                /\ saved[page_count].canvas = canvas
           ELSE Len(saved) = page_count - 1

C13_Witness ==
    /\ plot_pc = "done"
    /\ card_count = 1
    /\ Len(canvas) = 1
    /\ Len(saved) = page_count - 1
    /\ page_count > 1

\* the grid of the page
Columns == (dimensions[1] - 100) \div MTG_CARD_SIZE[1]
Rows == (dimensions[2] - 100) \div MTG_CARD_SIZE[2]

\* C17: the i-th image of a page, counted from 0, is pasted at
\* x = 50 + (i div columns) * cardWidth and y = 50 + (i mod columns) * cardHeight;
\* a page takes columns * rows images; no two images of a page share a position.
C17_Placement ==
    (plot_pc # "idle" /\ Columns >= 1) =>
        \A p \in 1..page_count :
            LET page == Pages[p]
            IN  /\ Rows >= 1 => Len(page) <= Columns * Rows
                /\ \A k \in 1..Len(page) :
                      /\ page[k].x = 50 + ((k - 1) \div Columns) * MTG_CARD_SIZE[1]
                      /\ page[k].y = 50 + ((k - 1) % Columns) * MTG_CARD_SIZE[2]
                /\ \A j, k \in 1..Len(page) :
                      j # k => <<page[j].x, page[j].y>> # <<page[k].x, page[k].y>>

C17_Witness ==
    /\ plot_pc = "done"
    /\ Columns = 2 /\ Rows = 2
    /\ Len(saved) >= 2
    /\ Len(saved[1].canvas) = 4

\* C18: on a page of at least one column and one row every image pasted lies
\* inside the page: x + cardWidth <= pageWidth and y + cardHeight <= pageHeight.
C18_InsidePage ==
    (plot_pc # "idle" /\ Columns >= 1 /\ Rows >= 1) =>
        \A p \in 1..page_count :
            LET page == Pages[p]
            IN  \A k \in 1..Len(page) :
                    /\ page[k].x + MTG_CARD_SIZE[1] <= dimensions[1]
                    /\ page[k].y + MTG_CARD_SIZE[2] <= dimensions[2]

----------------------------------------------------------------------------
(* Properties of a whole run of DeckChecker *)

\* the positions of run_checks, in order; "Gathering" is check_all_cards
\* waiting in gather
RunOrder == <<"Created", "SizeChecked", "Gathering", "CardsChecked", "Reported">>

PositionOf(pc) == CHOOSE i \in 1..Len(RunOrder) : RunOrder[i] = pc

\* C14: a run moves only forward through Created, SizeChecked, CardsChecked,
\* Reported: the size check has appended all its messages before any card
\* fetch starts, the report is built only after every card task has finished,
\* no position is entered twice, and the report reflects one size check and
\* one check of each entry.
C14_ForwardOnly ==
    /\ [](/\ run_pc \in Range(RunOrder)
          /\ run_pc = "Created" => appended[0] = <<>> /\ reasons = <<>>
          /\ run_pc \in {"Created", "SizeChecked"} =>
                \A t \in Tasks :
                    task_pc[t] = "new" /\ requests[t] = 0 /\ appended[t] = <<>>
          /\ run_pc \in {"CardsChecked", "Reported"} =>
                \A t \in Tasks : task_pc[t] = "done" /\ requests[t] = 1
          /\ run_pc # "Reported" => report = "")
    /\ [][/\ PositionOf(run_pc') \in {PositionOf(run_pc), PositionOf(run_pc) + 1}
          /\ run_pc # "Created" => appended'[0] = appended[0]
          /\ \A t \in Tasks :
                task_pc[t] = "done" =>
                    /\ task_pc'[t] = "done"
                    /\ appended'[t] = appended[t]
                    /\ requests'[t] = requests[t]
          /\ report' # report =>
                /\ run_pc = "CardsChecked" /\ run_pc' = "Reported"
                /\ reasons' = reasons
                /\ \A t \in Tasks : task_pc[t] = "done"
          /\ run_pc = "Reported" => reasons' = reasons /\ report' = report]_vars

\* a run is over: the size check and two card checks each left a message
C14_Witness ==
    /\ run_pc = "Reported"
    /\ appended[0] # <<>>
    /\ \E t, u \in Tasks : t # u /\ appended[t] # <<>> /\ appended[u] # <<>>
    /\ report # ""

\* the copies of the name of entry t over the whole deck
CopiesInDeck(t) ==
    SumTo([u \in Tasks |-> IF CardName(u) = CardName(t) THEN Quantity(u) ELSE 0],
          Len(Cards))

\* entry t left a quantity message
HasQuantityMessage(t) ==
    \E k \in 1..Len(appended[t]) : appended[t][k] \in {TooMany(t, "4"), TooMany(t, "7")}

\* C19: the quantity limit is applied to each entry on its own: an entry
\* yields a quantity message according to its own name, fetched type line and
\* own quantity, so entries of equal name, type line and quantity agree, and
\* copies of one name spread over several entries are never summed.
C19_PerEntryLimit ==
    \A t \in Tasks : (task_pc[t] = "done" /\ Fetched(t)) =>
        /\ HasQuantityMessage(t) <=> OverLimit(t)
        /\ \A u \in Tasks :
              ( /\ task_pc[u] = "done" /\ Fetched(u)
                /\ CardName(u) = CardName(t)
                /\ Quantity(u) = Quantity(t)
                /\ Get(Body(u), "type_line", <<>>) = Get(Body(t), "type_line", <<>>) )
              => (HasQuantityMessage(u) <=> HasQuantityMessage(t))
        /\ (CopiesInDeck(t) > Quantity(t) /\ ~OverLimit(t)) => ~HasQuantityMessage(t)

\* three copies in the maindeck and three in the sidedeck: no quantity message
C19_Witness ==
    /\ run_pc = "Reported"
    /\ \E t, u \in Tasks :
          /\ t # u
          /\ CardName(t) = "Lightning Bolt" /\ CardName(u) = "Lightning Bolt"
          /\ Quantity(t) = 3 /\ Quantity(u) = 3
          /\ Fetched(t) /\ Fetched(u)
          /\ ~BeginsWithBasic(t) /\ ~BeginsWithBasic(u)
          /\ ~HasQuantityMessage(t) /\ ~HasQuantityMessage(u)

\* entry t has been evaluated, or its error message is recorded
Settled(t) ==
    /\ task_pc[t] = "done"
    /\ \/ Answered(t)
       \/ Failed(t) /\ "Error checking " \o CardName(t) \o ": " \o Body(t)
                          \in Range(appended[t])

\* C15: check_all_cards starts one task per entry of maindeck and sidedeck and
\* returns only when all have finished; if every request eventually returns
\* or fails, every entry is eventually evaluated or has its error recorded,
\* a task waiting for a permit is eventually served, and the run eventually
\* reaches its report, also for a deck of more than 10 entries.
C15_AllTasksFinish ==
    /\ [](run_pc \in {"CardsChecked", "Reported"} => \A t \in Tasks : Settled(t))
    /\ [](run_pc = "Gathering" => DOMAIN task_pc = 1..Len(Cards))
    /\ (sem_waiters # <<>>) ~> (sem_waiters = <<>>)
    /\ <>(run_pc = "Reported" /\ \A t \in Tasks : Settled(t))

\* a deck of more than 10 entries has reached its report
C15_Witness ==
    /\ run_pc = "Reported"
    /\ Len(Cards) > SemaphorePermits
    /\ \A t \in Tasks : Settled(t)

\* C16: no retries.  A legality run issues exactly one catalog request per
\* entry, whether the request fails or the name occurs in several entries,
\* and what a request ended with is final; the render issues exactly one
\* metadata request for each entry it processes.
C16_NoRetry ==
    /\ [](/\ run_pc # "idle" =>
                /\ \A t \in Tasks : requests[t] <= 1
                /\ \A t \in Tasks : response[t] # <<"pending">> => requests[t] = 1
                /\ run_pc \in {"CardsChecked", "Reported"} =>
                      \A t \in Tasks : requests[t] = 1
          /\ plot_pc # "idle" =>
                /\ \A i \in 1..Len(Cards) :
                      /\ plot_requests[i] <= 1
                      /\ i < entry_idx => plot_requests[i] = 1
                      /\ plot_response[i] # <<"pending">> => plot_requests[i] = 1
                /\ plot_pc = "done" =>
                      \A i \in 1..Len(Cards) : plot_requests[i] = 1)
    /\ [][/\ run_pc # "idle" =>
                \A t \in Tasks :
                    response[t] # <<"pending">> =>
                        /\ response'[t] = response[t]
                        /\ requests'[t] = requests[t]
                        /\ task_pc'[t] = "done"
          /\ plot_pc # "idle" =>
                \A i \in 1..Len(Cards) :
                    plot_response[i] # <<"pending">> =>
                        /\ plot_response'[i] = plot_response[i]
                        /\ plot_requests'[i] = plot_requests[i]]_vars

\* a run is over in which one name fills two entries and one request failed
C16_Witness ==
    /\ run_pc = "Reported"
    /\ \E t, u \in Tasks :
          /\ t # u /\ CardName(t) = CardName(u)
          /\ Failed(t) /\ requests[t] = 1 /\ requests[u] = 1


====
